---- MODULE Spec2Model ----
(***************************************************************************)
(* Fragment router of src/page_navigation.js: getPageHash,                 *)
(* updateActiveLink, navigateToPage, the hashchange listener and the       *)
(* initial navigateToPage(getPageHash()) call.                             *)
(*                                                                         *)
(* JavaScript values are modelled as strings.  The value `undefined` is    *)
(* the marker Undefined; a function or object value found through the      *)
(* prototype chain is modelled by the text it is converted to when it is   *)
(* assigned to innerHTML.                                                  *)
(***************************************************************************)
EXTENDS Integers, Sequences, FiniteSets, TLC

VARIABLES
    url,        \* the '#...' suffix of the document URL ("" when there is none)
    pages,      \* own properties of the global `pages` object
    pagesProto, \* properties `pages` inherits through its prototype chain
    content,    \* document.getElementById('content').innerHTML
    linkStyle,  \* style.textDecoration of every footer a[href^="#"]
    pc,         \* "loading" until the script has run, then "ready"
    pending,    \* hashchange events queued and not yet dispatched
    pageHash,   \* result of the most recent getPageHash() evaluation
    rendered,   \* argument of the most recent navigateToPage call
    lastCall,   \* key of a direct navigateToPage call made in the previous step
    repeated,   \* TRUE when that call repeated the call made just before it
    container,  \* TRUE when document.getElementById('content') finds an element
    thrown,     \* error the most recent script or listener run ended with
    lastValid   \* payload of the most recent notified fragment whose key is a
                \* key of the page map; until there is one, the content the
                \* initial load resolved

vars == <<url, pages, pagesProto, content, linkStyle, pc, pending, pageHash,
          rendered, lastCall, repeated, container, thrown, lastValid>>

---------------------------------------------------------------------------
(* Bounds and the finite universe of inputs *)

MaxPending == 2

Undefined == "undefined"
NoKey == "<no call>"
NoError == "none"
TypeError == "TypeError"

\* Keys that page maps of the model may hold besides "home".
OptionalKeys == {"about", "contact"}

\* Payloads (markup strings) a page map may hold; "" is the empty payload.
Payloads == {"", "<h1>A</h1>", "<h1>B</h1>"}

\* Non-empty fragment strings a URL of the model may carry.
FragmentStrings == {"home", "about", "contact", "nonexistent", "constructor"}

\* URL suffixes: no fragment, the bare "#", and "#" followed by a fragment.
Urls == {"", "#"} \cup {"#" \o s : s \in FragmentStrings}

\* Every page map of the model: "home" is always present.
PageMaps ==
    UNION {[D -> Payloads] : D \in {S \cup {"home"} : S \in SUBSET OptionalKeys}}

\* Object.prototype as seen by a property read that ends up in innerHTML.
ObjectPrototype ==
    [k \in {"constructor", "toString"} |->
        IF k = "constructor" THEN "function Object() { [native code] }"
                             ELSE "function toString() { [native code] }"]

\* A `pages` object created with a null prototype inherits nothing.
NullPrototype == [k \in {} |-> ""]

\* href attributes of the footer links selected by 'footer a[href^="#"]'.
FooterLinks == {"#home", "#about", "#contact"}

\* Markup of the container before the script runs.
InitialContents == {"", "<p>Loading</p>"}

---------------------------------------------------------------------------
(* Pure helpers *)

\* String.prototype.slice(1)
Slice1(s) == IF Len(s) <= 1 THEN "" ELSE SubSeq(s, 2, Len(s))

\* location.hash: "" when the URL has no fragment or an empty one.
LocationHash == IF url = "#" THEN "" ELSE url

\* JavaScript truthiness of a looked-up value.
Truthy(v) == v # Undefined /\ v # ""

\* a || b
Or(a, b) == IF Truthy(a) THEN a ELSE b

\* pages[k]: own property first, then the prototype chain, else undefined.
Lookup(k) ==
    IF k \in DOMAIN pages THEN pages[k]
    ELSE IF k \in DOMAIN pagesProto THEN pagesProto[k]
    ELSE Undefined

\* getPageHash() without the slice(1): the leading '#' is kept.
GetPageHash_NoSlice == Or(LocationHash, "home")

\* getPageHash(): location.hash.slice(1) || 'home'
GetPageHash == Or(Slice1(LocationHash), "home")

---------------------------------------------------------------------------
(* Operations *)

\* updateActiveLink() that toggles the decoration of the matching link
\* instead of setting it.
UpdateActiveLink_Toggle ==
    linkStyle' = [link \in FooterLinks |->
                    IF Slice1(link) = GetPageHash
                      THEN (IF linkStyle[link] = "underline" THEN "" ELSE "underline")
                      ELSE ""]

\* updateActiveLink(): underline exactly the links whose target is the
\* current page key, clear the decoration of all the others.
UpdateActiveLink ==
    linkStyle' = [link \in FooterLinks |->
                    IF Slice1(link) = GetPageHash THEN "underline" ELSE ""]

\* navigateToPage(pageHash) without the `|| pages.home` fallback.
NavigateToPage_NoFallback(k) ==
    /\ IF container
         THEN /\ content' = Lookup(k)
              /\ UpdateActiveLink
              /\ thrown' = NoError
         ELSE /\ thrown' = TypeError
              /\ UNCHANGED <<content, linkStyle>>
    /\ rendered' = k
    /\ UNCHANGED <<url, pages, pagesProto, container>>

\* navigateToPage(pageHash) that also writes the key back to location.hash.
NavigateToPage_SetsLocation(k) ==
    /\ IF container
         THEN /\ content' = Or(Lookup(k), Lookup("home"))
              /\ UpdateActiveLink
              /\ thrown' = NoError
         ELSE /\ thrown' = TypeError
              /\ UNCHANGED <<content, linkStyle>>
    /\ rendered' = k
    /\ url' = "#" \o k
    /\ UNCHANGED <<pages, pagesProto, container>>

\* navigateToPage(pageHash) that skips the render when there is no container.
NavigateToPage_SkipsMissingContainer(k) ==
    /\ IF container
         THEN /\ content' = Or(Lookup(k), Lookup("home"))
              /\ UpdateActiveLink
         ELSE UNCHANGED <<content, linkStyle>>
    /\ thrown' = NoError
    /\ rendered' = k
    /\ UNCHANGED <<url, pages, pagesProto, container>>

\* navigateToPage(pageHash) that stores the resolved payload under the key.
NavigateToPage_CachesFallback(k) ==
    /\ IF container
         THEN /\ content' = Or(Lookup(k), Lookup("home"))
              /\ UpdateActiveLink
              /\ thrown' = NoError
         ELSE /\ thrown' = TypeError
              /\ UNCHANGED <<content, linkStyle>>
    /\ rendered' = k
    /\ pages' = [key \in DOMAIN pages \cup {k} |-> IF key = k THEN Or(Lookup(k), Lookup("home")) ELSE pages[key]]
    /\ UNCHANGED <<url, pagesProto, container>>

\* navigateToPage(pageHash): assigning innerHTML of a missing container
\* throws a TypeError before updateActiveLink runs.
NavigateToPage(k) ==
    /\ IF container
         THEN /\ content' = Or(Lookup(k), Lookup("home"))
              /\ UpdateActiveLink
              /\ thrown' = NoError
         ELSE /\ thrown' = TypeError
              /\ UNCHANGED <<content, linkStyle>>
    /\ rendered' = k
    /\ UNCHANGED <<url, pages, pagesProto, container>>

\* The document before the script runs, whether or not it has the container.
InitHost ==
    /\ url \in Urls
    /\ pages \in PageMaps
    /\ pagesProto \in {ObjectPrototype, NullPrototype}
    /\ content \in InitialContents
    /\ linkStyle = [link \in FooterLinks |-> ""]
    /\ pc = "loading"
    /\ pending = 0
    /\ pageHash = NoKey
    /\ rendered = NoKey
    /\ lastCall = NoKey
    /\ repeated = FALSE
    /\ container \in BOOLEAN
    /\ thrown = NoError
    /\ lastValid = NoKey

\* The document before the script runs, with the container the host is
\* required to supply.
Init ==
    /\ InitHost
    /\ container = TRUE

\* The script runs: the listener is registered and the initial
\* navigateToPage(getPageHash()) is performed.
Load ==
    /\ pc = "loading"
    /\ pc' = "ready"
    /\ pageHash' = GetPageHash
    /\ NavigateToPage(GetPageHash)
    /\ lastValid' = content'
    /\ lastCall' = NoKey
    /\ repeated' = FALSE
    /\ UNCHANGED pending

\* The host changes the fragment of the URL; a hashchange event is queued.
Navigate(u) ==
    /\ pc = "ready"
    /\ u # url
    /\ pending < MaxPending
    /\ url' = u
    /\ pending' = pending + 1
    /\ lastCall' = NoKey
    /\ repeated' = FALSE
    /\ thrown' = NoError
    /\ UNCHANGED <<pages, pagesProto, content, linkStyle, pc, pageHash, rendered,
                   container, lastValid>>

\* The hashchange listener.
HashChange ==
    /\ pc = "ready"
    /\ pending > 0
    /\ pending' = pending - 1
    /\ pageHash' = GetPageHash
    /\ IF Truthy(Lookup(GetPageHash))
         THEN NavigateToPage(GetPageHash)
         ELSE /\ thrown' = NoError
              /\ UNCHANGED <<url, pages, pagesProto, content, linkStyle,
                             rendered, container>>
    /\ lastValid' = IF GetPageHash \in DOMAIN pages THEN pages[GetPageHash]
                                                    ELSE lastValid
    /\ lastCall' = NoKey
    /\ repeated' = FALSE
    /\ UNCHANGED pc

\* A direct call getPageHash() from other code of the page.
CallGetPageHash ==
    /\ pc = "ready"
    /\ pageHash' = GetPageHash
    /\ lastCall' = NoKey
    /\ repeated' = FALSE
    /\ thrown' = NoError
    /\ UNCHANGED <<url, pages, pagesProto, content, linkStyle, pc, pending,
                   rendered, container, lastValid>>

\* A direct call navigateToPage(k) from other code of the page.
CallNavigateToPage(k) ==
    /\ pc = "ready"
    /\ NavigateToPage(k)
    /\ lastCall' = k
    /\ repeated' = (lastCall = k)
    /\ UNCHANGED <<pc, pending, pageHash, lastValid>>

Next ==
    \/ Load
    \/ \E u \in Urls : Navigate(u)
    \/ HashChange

Spec == Init /\ [][Next]_vars

NextDirect ==
    \/ Load
    \/ \E u \in Urls : Navigate(u)
    \/ HashChange
    \/ CallGetPageHash
    \/ \E k \in FragmentStrings : CallNavigateToPage(k)

SpecDirect == Init /\ [][NextDirect]_vars

\* The router in a host document that may lack the container.
SpecHost == InitHost /\ [][Next]_vars

---------------------------------------------------------------------------
(* Properties *)

\* A step in which navigateToPage runs.
RenderStep ==
    \/ Load
    \/ HashChange /\ Truthy(Lookup(GetPageHash))
    \/ \E k \in FragmentStrings : CallNavigateToPage(k)

\* C1: a hashchange whose key is not a key of the page map leaves the
\* container's content exactly as it was.
C1_UnknownKeyLeavesContent ==
    [][(HashChange /\ GetPageHash \notin DOMAIN pages) => content' = content]_vars

\* C2: for every key k of the page map, whatever its payload, a hashchange
\* with fragment "#" + k sets the container's content to pages[k].
C2_KnownKeyShowsPayload ==
    [][\A k \in DOMAIN pages :
          (HashChange /\ url = "#" \o k) => content' = pages[k]]_vars

\* C3: the initial load shows the payload of the initial fragment's key when
\* that key is in the page map, and the home payload when it is not.
C3_InitialLoadResolves ==
    [][Load => content' = IF GetPageHash \in DOMAIN pages
                            THEN pages[GetPageHash]
                            ELSE pages["home"]]_vars

\* C4: navigateToPage(k) with k a key of the page map sets the container's
\* content to pages[k], for every payload including the empty string.
C4_RenderPresentKey ==
    [][\A k \in FragmentStrings \cap DOMAIN pages :
          CallNavigateToPage(k) => content' = pages[k]]_vars

\* C5: navigateToPage(k) with k not a key of the page map sets the
\* container's content to pages["home"].
C5_RenderAbsentKey ==
    [][\A k \in FragmentStrings \ DOMAIN pages :
          CallNavigateToPage(k) => content' = pages["home"]]_vars

\* C6 (as claimed): once loaded, the container's content is the payload of
\* the key derived from the current fragment, or else the home payload.
C6_ContentFollowsCurrentFragment ==
    pc = "ready" =>
        \/ GetPageHash \in DOMAIN pages /\ content = pages[GetPageHash]
        \/ content = pages["home"]

\* C6 (amended): once loaded, the container's content is what the lookup
\* yields for the key of the most recent render when that value is non-empty,
\* or else the home payload; the rendered key is the most recently evaluated
\* fragment key unless the lookup of that key was empty.
C6_ContentFollowsRenderedKey ==
    pc = "ready" =>
        /\ content = Or(Lookup(rendered), pages["home"])
        /\ rendered # pageHash => ~Truthy(Lookup(pageHash))

\* A notification for an unknown fragment was ignored: the page rendered
\* earlier is still displayed although the fragment has moved on.
C6_Witness ==
    /\ pc = "ready"
    /\ pending = 0
    /\ url = "#nonexistent"
    /\ rendered = "about"
    /\ "about" \in DOMAIN pages
    /\ content = pages["about"]
    /\ content # pages["home"]

\* C7: getPageHash returns s for the location fragment "#" + s with s
\* non-empty, returns "home" when there is no fragment or the bare "#", and
\* changes nothing.
C7_GetPageHash ==
    [][(Load \/ HashChange \/ CallGetPageHash) =>
          /\ url' = url
          /\ url \in {"", "#"} => pageHash' = "home"
          /\ \A s \in FragmentStrings : url = "#" \o s => pageHash' = s
          /\ CallGetPageHash =>
                UNCHANGED <<pages, pagesProto, content, linkStyle, pc, pending>>]_vars

\* getPageHash was evaluated on a location with a non-empty fragment.
C7_Witness ==
    /\ pc = "ready"
    /\ url = "#nonexistent"
    /\ pageHash = "nonexistent"

\* C8 (as claimed): a render changes nothing but the container: the footer
\* links' styling, the location and the page map are unchanged.
C8_RenderChangesOnlyContainer ==
    [][RenderStep => UNCHANGED <<linkStyle, url, pages, pagesProto>>]_vars

\* C8 (amended): a render changes the container and the text decoration of
\* the footer links (underline on the links whose target is the current
\* fragment key, none on the others); the location and the page map are
\* unchanged.
C8_RenderChangesContainerAndLinks ==
    [][RenderStep =>
          /\ UNCHANGED <<url, pages, pagesProto>>
          /\ \A link \in FooterLinks :
                linkStyle'[link] =
                    IF link = "#" \o GetPageHash THEN "underline" ELSE ""]_vars

\* A direct render has run and a footer link is underlined.
C8_Witness ==
    /\ lastCall # NoKey
    /\ \E link \in FooterLinks : linkStyle[link] = "underline"

\* C9: once loaded, every step that changes the container's content is a
\* hashchange whose key is in the page map and shows that key's payload; a
\* hashchange for a key not in the map and a mere change of the location
\* leave the displayed state unchanged.
C9_OnlyKnownKeysTransition ==
    [][pc = "ready" =>
          /\ content' # content =>
                /\ HashChange
                /\ GetPageHash \in DOMAIN pages
                /\ content' = pages[GetPageHash]
          /\ ((HashChange /\ GetPageHash \notin DOMAIN pages)
                 \/ \E u \in Urls : Navigate(u)) =>
                UNCHANGED <<content, linkStyle>>]_vars

\* C10: navigateToPage(k) called again right after navigateToPage(k) leaves
\* the container and the rest of the observable state as the first call
\* left them.
C10_RenderIdempotent ==
    [][\A k \in FragmentStrings :
          (lastCall = k /\ CallNavigateToPage(k)) =>
              UNCHANGED <<content, linkStyle, url, pages, pagesProto, pc,
                          pending, pageHash, rendered>>]_vars

\* The same key has been rendered twice in succession by direct calls, for a
\* key absent from the page map.
C10_Witness ==
    /\ repeated
    /\ lastCall \notin DOMAIN pages
    /\ content = pages["home"]

\* C11: a render fails exactly when the container does not exist.  With the
\* container, the initial render and every hashchange end without error;
\* without it, every render ends with an uncaught TypeError and leaves the
\* document as it was; a step that renders nothing raises no error.
C11_RenderFailsIffNoContainer ==
    [][/\ RenderStep => (thrown' = TypeError <=> ~container)
       /\ ((Load \/ HashChange) /\ container) => thrown' = NoError
       /\ (RenderStep /\ ~container) =>
             UNCHANGED <<content, linkStyle, container, pages, pagesProto>>
       /\ (HashChange /\ ~RenderStep) => thrown' = NoError]_vars

\* Without the container, a hashchange to a known page has ended with the
\* uncaught error.
C11_Witness ==
    /\ ~container
    /\ pc = "ready"
    /\ pending = 0
    /\ pageHash = "about"
    /\ rendered = "about"
    /\ thrown = TypeError

\* C12: no step changes the page map: after the initial load and any
\* sequence of hashchanges and renders it has the keys and payloads it had
\* at startup.
C12_PagesNeverModified ==
    [][pages' = pages /\ pagesProto' = pagesProto]_vars

\* A render of a key absent from the page map has fallen back to home.
C12_Witness ==
    /\ pc = "ready"
    /\ lastCall = "nonexistent"
    /\ rendered = "nonexistent"
    /\ "nonexistent" \notin DOMAIN pages
    /\ content = pages["home"]

\* C13: once loaded, the container's content is the payload of the most
\* recent notified fragment whose key is in the page map, or the content
\* resolved at the initial load when no notification carried such a key.
C13_ContentIsLastValidPayload ==
    pc = "ready" => content = lastValid

\* The key of the page whose payload the most recent render put in the
\* container: the rendered key, or "home" when the fallback applied.
DisplayedKey == IF Truthy(Lookup(rendered)) THEN rendered ELSE "home"

\* C14: once loaded, a footer link is underlined if and only if its target is
\* the key of the page whose payload is in the container.
C14_ActiveLinkMatchesDisplayedPage ==
    pc = "ready" =>
        \A link \in FooterLinks :
            linkStyle[link] = "underline" <=> Slice1(link) = DisplayedKey

\* C15: a hashchange that arrives with no fragment or the bare "#" resolves
\* to the key "home" and sets the container to pages["home"].
C15_EmptyFragmentGoesHome ==
    [][(HashChange /\ url \in {"", "#"}) =>
          /\ pageHash' = "home"
          /\ content' = pages["home"]]_vars

====
